---- MODULE Spec2Model ----
(***************************************************************************)
(* Project Synapse: the knowledge-graph construction pipeline.             *)
(*   - the chunker of services/pdf_parser.py (extract_text_from_pdf)       *)
(*   - the extraction client, the concurrency controller, the merge step   *)
(*     and the graph writer of services/graph_builder.py                   *)
(* Strings are sequences of one-character strings, so that strip(),        *)
(* lower(), slicing and rfind() are computed and not assumed.              *)
(***************************************************************************)
EXTENDS Integers, Sequences, FiniteSets, TLC

VARIABLES
    \* ---- extract_text_from_pdf (pdf_parser.py) ----
    full_text,      \* the concatenated page text
    chunk_size,     \* parameter chunk_size
    overlap,        \* parameter overlap
    start,          \* the loop variable start
    chunks,         \* the list chunks
    windows,        \* history: <<start, end>> of every window scanned so far
    emitted,        \* history: for each emitted chunk, the index of its window
    cpc,            \* position in extract_text_from_pdf
    \* ---- build_knowledge_graph (graph_builder.py) ----
    nchunks,        \* len(chunks), the number of process_chunk tasks
    invoked,        \* history: per task, the calls of chain.ainvoke begun
    tpc,            \* per task: "waiting" (on the semaphore), "running" (its
                    \* model call is in flight), "done", "failed" (it raised)
    permits,        \* the semaphore's value
    llm,            \* history: what the model call of each chunk came to
    results,        \* per task, the value process_chunk returned
    phase,          \* position in build_knowledge_graph
    all_entities,   \* the list all_entities
    all_relationships, \* the list all_relationships
    seen_entities,  \* the dict seen_entities, as <<key, entity>> pairs in
                    \* insertion order
    node_idx,       \* the node loop: index of the next entity of unique_entities
    nodes_created,  \* the counter nodes_created
    rel_idx,        \* the edge loop: index of the next item of all_relationships
    rels_created,   \* the counter rels_created
    store_nodes,    \* the graph store: its Entity nodes
    store_edges,    \* the graph store: its relationships
    queries,        \* history: the queries issued to the store, in order
    \* ---- a second ingestion run, of another upload, writing its nodes ----
    peer_entities,  \* its list unique_entities
    peer_document,  \* its document_name argument
    peer_idx,       \* its node loop: index of its next entity
    \* ---- _retrieve_subgraph (chat_engine.py) ----
    r_query,        \* the argument query
    r_results,      \* the list results
    context_parts,  \* the list context_parts
    r_context,      \* the string returned
    rpc             \* position in _retrieve_subgraph

chunkVars == <<full_text, chunk_size, overlap, start, chunks, windows, emitted, cpc>>

buildVars == <<nchunks, invoked, tpc, permits, llm, results, phase, all_entities,
               all_relationships, seen_entities, node_idx, nodes_created,
               rel_idx, rels_created, store_nodes, store_edges, queries>>

\* The second run.
peerVars == <<peer_entities, peer_document, peer_idx>>

\* The retrieval.
retrVars == <<r_query, r_results, context_parts, r_context, rpc>>

\* What the extraction phase leaves alone.
writeVars == <<seen_entities, node_idx, nodes_created, rel_idx, rels_created,
               store_nodes, store_edges, queries>>

vars == <<full_text, chunk_size, overlap, start, chunks, windows, emitted, cpc,
          nchunks, invoked, tpc, permits, llm, results, phase, all_entities,
          all_relationships, seen_entities, node_idx, nodes_created,
          rel_idx, rels_created, store_nodes, store_edges, queries,
          peer_entities, peer_document, peer_idx,
          r_query, r_results, context_parts, r_context, rpc>>

-----------------------------------------------------------------------------
\* Bounds of the model.

\* Longest page text drawn (full_text is one character longer: the "\n"
\* appended after every page).
MaxLen == 3
\* chunk_size is drawn from 1..MaxChunkSize (MaxChunkSize > MaxLen, so that
\* a single window holds a whole text of the greatest length).
MaxChunkSize == 4
\* overlap is drawn from 0..MaxOverlap (MaxOverlap >= MaxChunkSize, so that
\* overlap >= chunk_size happens).
MaxOverlap == 4
\* The extraction phase alone is run over 1..MaxConcChunks chunks (more than
\* the semaphore admits).
MaxConcChunks == 6
\* The whole of build_knowledge_graph is run over 1..MaxChunks chunks.
MaxChunks == 3
\* The merge step is run over every list of at most MaxMergeLen entities.
MaxMergeLen == 3
\* Longest list of entities a chunk's answer carries where two runs write.
MaxUpsertLen == 2
\* Most entities in the graph searched, besides the three named ones.
MaxFiller == 18

-----------------------------------------------------------------------------
\* Strings.

Min(S) == CHOOSE x \in S : \A y \in S : x <= y
Max(S) == CHOOSE x \in S : \A y \in S : x >= y

\* The characters page text is drawn from.
Chars == {"a", " ", ".", "?", "!", "\n"}

\* What str.strip() removes.
Whitespace == {" ", "\n"}

\* A slice index as Python normalises it: a negative index counts from the
\* end, and the result is clipped to 0..len(s).
SliceIndex(s, i) ==
    IF i < 0 THEN (IF i + Len(s) < 0 THEN 0 ELSE i + Len(s))
    ELSE (IF i > Len(s) THEN Len(s) ELSE i)

\* Python's s[a:b] (0-based, b exclusive).
Slice(s, a, b) == SubSeq(s, SliceIndex(s, a) + 1, SliceIndex(s, b))

\* The 1-based positions of s that hold a non-whitespace character.
NonWs(s) == {i \in 1..Len(s) : s[i] \notin Whitespace}

\* str.strip()
Strip(s) == IF NonWs(s) = {} THEN <<>> ELSE SubSeq(s, Min(NonWs(s)), Max(NonWs(s)))

\* str.rfind(b): the highest 0-based index at which b occurs in s, or -1.
RFind(s, b) ==
    LET hits == {i \in 0..(Len(s) - Len(b)) : SubSeq(s, i + 1, i + Len(b)) = b}
    IN  IF hits = {} THEN -1 ELSE Max(hits)

\* All strings over Chars of length at most n.
StringsUpTo(n) == UNION {[1..k -> Chars] : k \in 0..n}

-----------------------------------------------------------------------------
\* extract_text_from_pdf: the chunker.

\* The boundary list of the for loop, in its order.
Boundaries == << <<".", " ">>, <<"?", " ">>, <<"!", " ">>, <<"\n">> >>

\* full_text after the page loop: every non-empty page text followed by "\n".
\* A text of several pages is a text with inner "\n", so these are all the
\* values full_text can take, up to the length bound.
FullTexts == {<<>>} \cup {t \o <<"\n">> : t \in (StringsUpTo(MaxLen) \ {<<>>})}

\* A window end snapped after the boundary that ends latest in the window,
\* whatever its place in the list.
WindowEndLatest(text, s, size) ==
    LET end == s + size
        window == Slice(text, s, end)
        found == {k \in 1..Len(Boundaries) : RFind(window, Boundaries[k]) # -1}
    IN  IF end < Len(text) /\ found # {}
        THEN s + Max({RFind(window, Boundaries[k]) + Len(Boundaries[k]) : k \in found})
        ELSE end

\* The window end after the sentence-boundary search (lines 39-48).
WindowEnd(text, s, size) ==
    LET end == s + size
        window == Slice(text, s, end)
        found == {k \in 1..Len(Boundaries) : RFind(window, Boundaries[k]) # -1}
    IN  IF end < Len(text) /\ found # {}
        THEN s + RFind(window, Boundaries[Min(found)]) + Len(Boundaries[Min(found)])
        ELSE end

\* A next start without the guard of lines 56-57.
NextStartNoGuard(s, end, ov) == end - ov

\* A next start that adds the overlap instead of subtracting it.
NextStartGap(s, end, ov) ==
    IF end + ov <= s THEN s + 1 ELSE end + ov

\* The anti-infinite-loop guard (lines 55-58).
NextStart(s, end, ov) ==
    IF end - ov <= s THEN s + 1 ELSE end - ov

\* A chunker that appends every stripped window, empty or not.
KeepsAll(chunk) == TRUE

\* "if chunk:" (line 51): whether the stripped window is appended.
Keeps(chunk) == chunk # <<>>

\* "if not full_text.strip(): return []" (lines 32-33).
ChunkEarlyReturn ==
    /\ cpc = "check"
    /\ Strip(full_text) = <<>>
    /\ cpc' = "done"
    /\ UNCHANGED <<full_text, chunk_size, overlap, start, chunks, windows, emitted>>
    /\ UNCHANGED buildVars
    /\ UNCHANGED peerVars
    /\ UNCHANGED retrVars

\* Line 32 falls through to the loop (lines 36-37).
ChunkEnterLoop ==
    /\ cpc = "check"
    /\ Strip(full_text) # <<>>
    /\ cpc' = "loop"
    /\ UNCHANGED <<full_text, chunk_size, overlap, start, chunks, windows, emitted>>
    /\ UNCHANGED buildVars
    /\ UNCHANGED peerVars
    /\ UNCHANGED retrVars

\* One iteration of "while start < len(full_text)" (lines 38-58).
ChunkStep ==
    /\ cpc = "loop"
    /\ start < Len(full_text)
    /\ LET end == WindowEnd(full_text, start, chunk_size)
           chunk == Strip(Slice(full_text, start, end))
       IN  /\ windows' = Append(windows, <<start, end>>)
           /\ IF Keeps(chunk)
              THEN /\ chunks' = Append(chunks, chunk)
                   /\ emitted' = Append(emitted, Len(windows) + 1)
              ELSE UNCHANGED <<chunks, emitted>>
           /\ start' = NextStart(start, end, overlap)
    /\ UNCHANGED <<full_text, chunk_size, overlap, cpc>>
    /\ UNCHANGED buildVars
    /\ UNCHANGED peerVars
    /\ UNCHANGED retrVars

\* The loop condition fails: "return chunks" (line 60).
ChunkReturn ==
    /\ cpc = "loop"
    /\ start >= Len(full_text)
    /\ cpc' = "done"
    /\ UNCHANGED <<full_text, chunk_size, overlap, start, chunks, windows, emitted>>
    /\ UNCHANGED buildVars
    /\ UNCHANGED peerVars
    /\ UNCHANGED retrVars

\* No retrieval is in progress.
RetrIdle ==
    /\ r_query = <<>>
    /\ r_results = <<>>
    /\ context_parts = <<>>
    /\ r_context = <<>>
    /\ rpc = "idle"

\* There is no second run.
PeerIdle ==
    /\ peer_entities = <<>>
    /\ peer_document = ""
    /\ peer_idx = 0

\* No ingestion run is in progress.
BuildIdle ==
    /\ PeerIdle
    /\ RetrIdle
    /\ nchunks = 0
    /\ invoked = <<>>
    /\ tpc = <<>>
    /\ permits = 0
    /\ llm = <<>>
    /\ results = <<>>
    /\ phase = "idle"
    /\ all_entities = <<>>
    /\ all_relationships = <<>>
    /\ seen_entities = <<>>
    /\ node_idx = 0
    /\ nodes_created = 0
    /\ rel_idx = 0
    /\ rels_created = 0
    /\ store_nodes = {}
    /\ store_edges = {}
    /\ queries = <<>>

InitChunk ==
    /\ BuildIdle
    /\ full_text \in FullTexts
    /\ chunk_size \in 1..MaxChunkSize
    /\ overlap \in 0..MaxOverlap
    /\ start = 0
    /\ chunks = <<>>
    /\ windows = <<>>
    /\ emitted = <<>>
    /\ cpc = "check"

NextChunk ==
    \/ ChunkEarlyReturn
    \/ ChunkEnterLoop
    \/ ChunkStep
    \/ ChunkReturn

SpecChunk == InitChunk /\ [][NextChunk]_vars

-----------------------------------------------------------------------------
\* Properties of the chunker.

\* The start of the iteration after window k (the current start after the
\* last window scanned).
StartAfter(k) == IF k < Len(windows) THEN windows[k + 1][1] ELSE start

\* The window the k-th emitted chunk was cut from.
WindowOf(k) == windows[emitted[k]]

\* C6: the chunking loop terminates for every text, every chunk_size >= 1 and
\* every overlap >= 0: the start offset is at least the number of iterations
\* made and every iteration starts below len(full_text), so the loop makes at
\* most len(full_text) iterations; and the loop is only ever left by
\* returning.
C6_ChunkingTerminates ==
    /\ Len(windows) <= start
    /\ Len(windows) <= Len(full_text)
    /\ \A k \in 1..Len(windows) : windows[k][1] < Len(full_text)
    /\ cpc \in {"check", "loop", "done"}
    /\ (cpc = "check" => windows = <<>>)

\* The loop has returned after a run with overlap >= chunk_size that scanned
\* a window at every offset, one of them shortened by a boundary.
C6_Witness ==
    /\ cpc = "done"
    /\ overlap >= chunk_size
    /\ Len(windows) = Len(full_text)
    /\ Len(windows) >= 3
    /\ \E k \in 1..Len(windows) : windows[k][2] < windows[k][1] + chunk_size

\* C7: the start offset of each iteration is strictly greater than that of
\* the previous one, and when end - overlap is not beyond the current start
\* the next start is exactly start + 1.
C7_StartStrictlyIncreases ==
    \A k \in 1..Len(windows) :
        /\ StartAfter(k) > windows[k][1]
        /\ (windows[k][2] - overlap <= windows[k][1]
                => StartAfter(k) = windows[k][1] + 1)

\* Three windows were scanned; after one the guard forced start + 1, after
\* another the start moved to end - overlap.
C7_Witness ==
    /\ Len(windows) >= 3
    /\ \E k \in 1..Len(windows) : windows[k][2] - overlap <= windows[k][1]
    /\ \E k \in 1..Len(windows) :
          /\ windows[k][2] - overlap > windows[k][1]
          /\ StartAfter(k) = windows[k][2] - overlap

\* C8: for 0 <= overlap < chunk_size the windows cover the text without a
\* gap: the first starts at 0, each next one starts at or before the end of
\* the previous one, the last one reaches the end of the text, and every
\* non-whitespace character lies in the window of an emitted chunk, which is
\* that window stripped.
C8_WindowsCoverText ==
    overlap < chunk_size =>
        /\ (windows # <<>> => windows[1][1] = 0)
        /\ \A k \in 2..Len(windows) : windows[k][1] <= windows[k - 1][2]
        /\ (cpc = "done" /\ windows # <<>>
                => windows[Len(windows)][2] >= Len(full_text))
        /\ (cpc = "done" =>
                \A p \in NonWs(full_text) :
                    \E k \in 1..Len(chunks) :
                        /\ WindowOf(k)[1] < p
                        /\ p <= WindowOf(k)[2]
                        /\ chunks[k] = Strip(Slice(full_text, WindowOf(k)[1], WindowOf(k)[2])))

\* The chunker returned after scanning overlapping windows (overlap > 0), one
\* of them shortened by a boundary, over a text with several words.
C8_Witness ==
    /\ cpc = "done"
    /\ 0 < overlap
    /\ overlap < chunk_size
    /\ Len(chunks) >= 2
    /\ \E k \in 1..Len(windows) : windows[k][2] < windows[k][1] + chunk_size
    /\ \E k \in 2..Len(windows) : windows[k][1] < windows[k - 1][2]

\* C9: every emitted chunk is non-empty and has no leading or trailing
\* whitespace, chunks are emitted in increasing order of their window start,
\* and an empty or whitespace-only text yields no chunk.
C9_ChunksTrimmedOrdered ==
    /\ \A k \in 1..Len(chunks) :
          /\ chunks[k] # <<>>
          /\ chunks[k][1] \notin Whitespace
          /\ chunks[k][Len(chunks[k])] \notin Whitespace
          /\ (k > 1 => WindowOf(k)[1] > WindowOf(k - 1)[1])
    /\ (Strip(full_text) = <<>> => chunks = <<>>)

\* The chunker returned two chunks or more, dropped a window that was empty
\* after stripping, and cut a chunk from a window with surrounding whitespace.
C9_Witness ==
    /\ cpc = "done"
    /\ Len(chunks) >= 2
    /\ Len(windows) > Len(chunks)
    /\ \E k \in 1..Len(chunks) :
          Len(chunks[k]) < Len(Slice(full_text, WindowOf(k)[1], WindowOf(k)[2]))

-----------------------------------------------------------------------------
\* JSON values, as json.loads returns them.  Every value is a record with a
\* tag t; a dict holds its keys as further fields of the record ("t" is not a
\* key of any dict drawn).

JNull == [t |-> "null"]
JStr(s) == [t |-> "str", v |-> s]
JList(xs) == [t |-> "list", v |-> xs]

IsDict(x) == x.t = "dict"
IsStr(x) == x.t = "str"

\* dict.get(key, default)
Get(d, key, default) == IF key \in DOMAIN d THEN d[key] ELSE default

\* Whether len(x) is defined (a TypeError otherwise).
HasLen(x) == x.t \in {"list", "str", "dict"}

\* The order in which the keys of a dict are listed when it is iterated.
KeyOrder == <<"entities", "relationships", "name", "type", "description", "source", "target">>

\* The items list.extend(x) appends: the items of a list, the characters of
\* a string, the keys of a dict.
Iter(x) ==
    CASE x.t = "list" -> x.v
      [] x.t = "str" -> [k \in 1..Len(x.v) |-> JStr(<<x.v[k]>>)]
      [] x.t = "dict" -> LET keys == SelectSeq(KeyOrder, LAMBDA k : k \in DOMAIN x)
                         IN  [k \in 1..Len(keys) |-> JStr(<<keys[k]>>)]

\* {"entities": [], "relationships": []}
EmptyResult == [t |-> "dict", entities |-> JList(<<>>), relationships |-> JList(<<>>)]

-----------------------------------------------------------------------------
\* Letter case.

UpperCase == <<"A", "C", "D", "E", "I", "K", "O", "P", "R", "T", "W">>
LowerCase == <<"a", "c", "d", "e", "i", "k", "o", "p", "r", "t", "w">>

\* str.lower()
Lower(s) ==
    [k \in 1..Len(s) |->
        IF \E j \in 1..Len(UpperCase) : UpperCase[j] = s[k]
        THEN LowerCase[CHOOSE j \in 1..Len(UpperCase) : UpperCase[j] = s[k]]
        ELSE s[k]]

\* str.upper()
Upper(s) ==
    [k \in 1..Len(s) |->
        IF \E j \in 1..Len(LowerCase) : LowerCase[j] = s[k]
        THEN UpperCase[CHOOSE j \in 1..Len(LowerCase) : LowerCase[j] = s[k]]
        ELSE s[k]]

\* str.replace(" ", "_")
ReplaceSpaces(s) == [k \in 1..Len(s) |-> IF s[k] = " " THEN "_" ELSE s[k]]

-----------------------------------------------------------------------------
\* The text a model call returns, as a sequence of lexemes: a markdown fence
\* (``` or ```json, with the whitespace after it), the text of one JSON
\* document (carrying the value it denotes), or text that is not JSON.

Fence == [k |-> "fence"]
Junk == [k |-> "junk"]
JsonText(value) == [k |-> "json", v |-> value]

\* _parse_llm_json: the fences are removed, and json.loads accepts what is
\* left if it is exactly one JSON document; a JSONDecodeError is answered
\* with the empty result.
ParseLLMJson(text) ==
    LET cleaned == SelectSeq(text, LAMBDA x : x # Fence)
    IN  IF Len(cleaned) = 1 /\ cleaned[1].k = "json"
        THEN cleaned[1].v
        ELSE EmptyResult

\* What a model call comes to.
Timeout == [kind |-> "timeout"]
CallError == [kind |-> "error"]
Response(text) == [kind |-> "text", text |-> text]
NoCall == [kind |-> "none"]
NoResult == [t |-> "none"]

\* The try block of _extract_with_timeout (lines 98-110): the value it
\* returns, or the exception it raises.
ExtractBody(outcome) ==
    CASE outcome.kind = "timeout" -> [exc |-> "TimeoutError", val |-> NoResult]
      [] outcome.kind = "error" -> [exc |-> "ConnectionError", val |-> NoResult]
      [] outcome.kind = "text" ->
            LET parsed == ParseLLMJson(outcome.text)
            IN  IF ~IsDict(parsed)
                THEN [exc |-> "AttributeError", val |-> NoResult]
                ELSE IF \/ ~HasLen(Get(parsed, "entities", JList(<<>>)))
                        \/ ~HasLen(Get(parsed, "relationships", JList(<<>>)))
                     THEN [exc |-> "TypeError", val |-> NoResult]
                     ELSE [exc |-> "none", val |-> parsed]

\* An extraction client that handles the timeout only.
CaughtTimeoutOnly(exc) == exc = "TimeoutError"

\* The except clauses of _extract_with_timeout (lines 111-116):
\* asyncio.TimeoutError, then Exception.
Caught(exc) ==
    exc \in {"TimeoutError", "ConnectionError", "AttributeError", "TypeError"}

\* _extract_with_timeout: the value returned, or raised = TRUE.
ExtractWithTimeout(outcome) ==
    LET b == ExtractBody(outcome)
    IN  IF b.exc = "none" THEN [raised |-> FALSE, val |-> b.val]
        ELSE IF Caught(b.exc) THEN [raised |-> FALSE, val |-> EmptyResult]
        ELSE [raised |-> TRUE, val |-> NoResult]

-----------------------------------------------------------------------------
\* build_knowledge_graph: the concurrent extraction phase.

\* asyncio.Semaphore(5) (line 140).
MaxParallel == 5

Tasks == 1..nchunks

\* The extraction calls started and not yet resolved.
Outstanding == {i \in Tasks : tpc[i] = "running"}

\* A gate that admits every task.
NeverLocked == FALSE

\* Semaphore.locked(): no permit is free.
Locked == permits = 0

\* "async with semaphore:" admits task i, which starts its model call
\* (lines 143-145); a task finding the semaphore locked stays waiting.
Start(i) ==
    /\ phase = "extract"
    /\ tpc[i] = "waiting"
    /\ ~Locked
    /\ permits' = permits - 1
    /\ tpc' = [tpc EXCEPT ![i] = "running"]
    /\ invoked' = [invoked EXCEPT ![i] = @ + 1]
    /\ UNCHANGED <<nchunks, llm, results, phase, all_entities, all_relationships>>
    /\ UNCHANGED writeVars
    /\ UNCHANGED chunkVars
    /\ UNCHANGED peerVars
    /\ UNCHANGED retrVars

\* A gate that keeps the permit of a call that timed out.
ReleasedUnlessTimeout(outcome) == IF outcome.kind = "timeout" THEN 0 ELSE 1

\* The permits given back on leaving the "async with semaphore:" block
\* (line 143): one, however the call inside it ended.
Released(outcome) == 1

\* A client that calls the model a second time after a timeout.
ResolveRetrying(i, outcome) ==
    /\ phase = "extract"
    /\ tpc[i] = "running"
    /\ IF outcome.kind = "timeout" /\ invoked[i] < 2
       THEN /\ invoked' = [invoked EXCEPT ![i] = @ + 1]
            /\ llm' = [llm EXCEPT ![i] = outcome]
            /\ UNCHANGED <<tpc, results, permits>>
       ELSE /\ LET r == ExtractWithTimeout(outcome)
               IN  /\ tpc' = [tpc EXCEPT ![i] = IF r.raised THEN "failed" ELSE "done"]
                   /\ results' = [results EXCEPT ![i] = r.val]
            /\ llm' = [llm EXCEPT ![i] = outcome]
            /\ permits' = permits + Released(outcome)
            /\ UNCHANGED invoked
    /\ UNCHANGED <<nchunks, phase, all_entities, all_relationships>>
    /\ UNCHANGED writeVars
    /\ UNCHANGED chunkVars
    /\ UNCHANGED peerVars
    /\ UNCHANGED retrVars

\* The model call of task i comes to `outcome`: _extract_with_timeout
\* returns (or raises), process_chunk leaves the "async with" block, which
\* releases the permit, and the task ends (lines 145-152, 95-116).
Resolve(i, outcome) ==
    /\ phase = "extract"
    /\ tpc[i] = "running"
    /\ LET r == ExtractWithTimeout(outcome)
       IN  /\ tpc' = [tpc EXCEPT ![i] = IF r.raised THEN "failed" ELSE "done"]
           /\ results' = [results EXCEPT ![i] = r.val]
    /\ llm' = [llm EXCEPT ![i] = outcome]
    /\ permits' = permits + Released(outcome)
    /\ UNCHANGED <<nchunks, invoked, phase, all_entities, all_relationships>>
    /\ UNCHANGED writeVars
    /\ UNCHANGED chunkVars
    /\ UNCHANGED peerVars
    /\ UNCHANGED retrVars

\* A gather that returns as soon as one task has ended.
GatherReadyAny == \E i \in Tasks : tpc[i] = "done"

\* asyncio.gather(*tasks) returns once every task has returned (line 155).
GatherReady == \A i \in Tasks : tpc[i] = "done"

\* list.extend over the results, in their order (lines 157-159).
RECURSIVE ExtendAll(_, _, _)
ExtendAll(acc, rs, key) ==
    IF rs = <<>> THEN acc
    ELSE ExtendAll(acc \o Iter(Get(Head(rs), key, JList(<<>>))), Tail(rs), key)

\* An aggregation that keeps the last result only.
AggregateLast(rs, key) ==
    IF rs = <<>> THEN <<>> ELSE Iter(Get(rs[Len(rs)], key, JList(<<>>)))

\* all_entities / all_relationships after the loop of lines 157-159.
Aggregate(rs, key) == ExtendAll(<<>>, rs, key)

\* The results of the tasks that have returned, in chunk order.
ResultList == [k \in 1..Cardinality({i \in Tasks : tpc[i] = "done"}) |->
                 results[CHOOSE i \in Tasks :
                            /\ tpc[i] = "done"
                            /\ Cardinality({j \in 1..i : tpc[j] = "done"}) = k]]

\* "results = await asyncio.gather(*tasks)" (line 155) and the aggregation
\* of lines 157-161.  gather returns once every task has returned; if a task
\* raised, gather re-raises its exception at once, and it propagates out of
\* build_knowledge_graph.
Gather ==
    /\ phase = "extract"
    /\ \/ GatherReady
       \/ \E i \in Tasks : tpc[i] = "failed"
    /\ IF \E i \in Tasks : tpc[i] = "failed"
       THEN /\ phase' = "raised"
            /\ UNCHANGED <<all_entities, all_relationships>>
       ELSE /\ all_entities' = Aggregate(ResultList, "entities")
            /\ all_relationships' = Aggregate(ResultList, "relationships")
            /\ phase' = "gathered"
    /\ UNCHANGED <<nchunks, invoked, tpc, permits, llm, results>>
    /\ UNCHANGED writeVars
    /\ UNCHANGED chunkVars
    /\ UNCHANGED peerVars
    /\ UNCHANGED retrVars

\* No chunking is in progress.
ChunkIdle ==
    /\ full_text = <<>>
    /\ chunk_size = 1
    /\ overlap = 0
    /\ start = 0
    /\ chunks = <<>>
    /\ windows = <<>>
    /\ emitted = <<>>
    /\ cpc = "idle"

\* build_knowledge_graph has been called with n chunks: the tasks are
\* created, none has run yet (lines 135-154).
InitRunOf(n) ==
    /\ ChunkIdle
    /\ RetrIdle
    /\ nchunks = n
    /\ invoked = [i \in 1..n |-> 0]
    /\ tpc = [i \in 1..n |-> "waiting"]
    /\ permits = MaxParallel
    /\ llm = [i \in 1..n |-> NoCall]
    /\ results = [i \in 1..n |-> NoResult]
    /\ phase = "extract"
    /\ all_entities = <<>>
    /\ all_relationships = <<>>
    /\ seen_entities = <<>>
    /\ node_idx = 0
    /\ nodes_created = 0
    /\ rel_idx = 0
    /\ rels_created = 0
    /\ store_nodes = {}
    /\ store_edges = {}
    /\ queries = <<>>

\* One run on its own, on an empty store.
InitBuildOf(n) ==
    /\ InitRunOf(n)
    /\ PeerIdle

-----------------------------------------------------------------------------
\* Strings and records the model's answers are made of.

sAlice == <<"A", "l", "i", "c", "e">>
sAliceLower == <<"a", "l", "i", "c", "e">>
sAcme == <<"A", "c", "m", "e", " ", "C", "o", "r", "p">>
sPerson == <<"P", "E", "R", "S", "O", "N">>
sCompany == <<"C", "O", "M", "P", "A", "N", "Y">>
sWorkedAt == <<"W", "O", "R", "K", "E", "D", "_", "A", "T">>
sDesc == <<"d">>

Entity(name, type, description) ==
    [t |-> "dict", name |-> JStr(name), type |-> JStr(type), description |-> JStr(description)]

Relationship(source, target, type, description) ==
    [t |-> "dict", source |-> JStr(source), target |-> JStr(target),
     type |-> JStr(type), description |-> JStr(description)]

\* {"entities": [Alice, Acme Corp], "relationships": [Alice WORKED_AT Acme Corp]}
AnswerAliceAcme ==
    [t |-> "dict",
     entities |-> JList(<<Entity(sAlice, sPerson, sDesc), Entity(sAcme, sCompany, sDesc)>>),
     relationships |-> JList(<<Relationship(sAlice, sAcme, sWorkedAt, sDesc)>>)]

\* {"entities": [alice]}: no "relationships" key.
AnswerAliceLower ==
    [t |-> "dict", entities |-> JList(<<Entity(sAliceLower, sPerson, <<>>)>>)]

\* What a model call may come to in the runs of the extraction phase.
ConcOutcomes ==
    { Timeout, CallError,
      Response(<<Fence, JsonText(AnswerAliceAcme), Fence>>) }

-----------------------------------------------------------------------------
\* The extraction phase of build_knowledge_graph on its own (lines 135-161).

InitConc == \E n \in 1..MaxConcChunks : InitBuildOf(n)

NextConc ==
    \/ \E i \in Tasks : Start(i)
    \/ \E i \in Tasks : \E o \in ConcOutcomes : Resolve(i, o)
    \/ Gather

SpecConc == InitConc /\ [][NextConc]_vars

-----------------------------------------------------------------------------
\* build_knowledge_graph: the merge step (lines 163-170).

\* A merge in which the first entity of a key wins.
PutFirstWins(seen, key, entity) ==
    IF \E k \in 1..Len(seen) : seen[k][1] = key
    THEN seen
    ELSE Append(seen, <<key, entity>>)

\* seen_entities[key] = entity: a key already present keeps its place.
Put(seen, key, entity) ==
    IF \E k \in 1..Len(seen) : seen[k][1] = key
    THEN [k \in 1..Len(seen) |-> IF seen[k][1] = key THEN <<key, entity>> ELSE seen[k]]
    ELSE Append(seen, <<key, entity>>)

\* Whether 'entity.get("name", "").strip()' raises (line 166): the item has
\* no get(), or its name has no strip().
MergeRaises(entity) ==
    \/ ~IsDict(entity)
    \/ ~IsStr(Get(entity, "name", JStr(<<>>)))

\* The loop of lines 165-168 over the entities es, from the dict seen.
RECURSIVE MergeAll(_, _)
MergeAll(seen, es) ==
    IF es = <<>> THEN [raised |-> FALSE, seen |-> seen]
    ELSE IF MergeRaises(Head(es)) THEN [raised |-> TRUE, seen |-> seen]
    ELSE LET name == Strip(Get(Head(es), "name", JStr(<<>>)).v)
         IN  IF name # <<>>
             THEN MergeAll(Put(seen, Lower(name), Head(es)), Tail(es))
             ELSE MergeAll(seen, Tail(es))

\* unique_entities = list(seen_entities.values()) (line 169)
UniqueEntities == [k \in 1..Len(seen_entities) |-> seen_entities[k][2]]

\* Lines 163-173: the entities are deduplicated; an exception raised by the
\* loop propagates out of build_knowledge_graph.
Dedupe ==
    /\ phase = "gathered"
    /\ LET m == MergeAll(<<>>, all_entities)
       IN  /\ seen_entities' = m.seen
           /\ phase' = IF m.raised THEN "raised" ELSE "nodes"
    /\ node_idx' = 1
    /\ UNCHANGED <<nchunks, invoked, tpc, permits, llm, results, all_entities,
                   all_relationships, nodes_created, rel_idx, rels_created,
                   store_nodes, store_edges, queries>>
    /\ UNCHANGED chunkVars
    /\ UNCHANGED peerVars
    /\ UNCHANGED retrVars

-----------------------------------------------------------------------------
\* build_knowledge_graph: the graph writer (lines 172-245).

\* The document_name argument.
DocumentName == "paper.pdf"

sUnknownName == <<"U", "n", "k", "n", "o", "w", "n">>
sUnknownType == <<"U", "N", "K", "N", "O", "W", "N">>
sRelatedTo == <<"R", "E", "L", "A", "T", "E", "D", "_", "T", "O">>

\* A node query that creates a node whether or not one of the name exists.
MergeNodeCreate(nodes, name, type, description, document) ==
    nodes \cup {[name |-> name, type |-> type, description |-> description,
                 document |-> document]}

\* MERGE (n:Entity {name: $name}) SET n.type, n.description, n.document
\* (lines 175-180): every node of that name is updated; if there is none, one
\* is created.
MergeNode(nodes, name, type, description, document) ==
    LET new == [name |-> name, type |-> type, description |-> description,
                document |-> document]
    IN  IF \E n \in nodes : n.name = name
        THEN {IF n.name = name THEN new ELSE n : n \in nodes}
        ELSE nodes \cup {new}

\* "await execute_query(query, params)": the store runs the query as one
\* transaction and the call returns (TRUE), or the call raises and the store
\* is left as it was (FALSE).
QueryReturns == BOOLEAN

\* The parameters of the node query for an entity (lines 183-186).
NodeParams(entity, document) ==
    [name |-> Get(entity, "name", JStr(sUnknownName)),
     type |-> Get(entity, "type", JStr(sUnknownType)),
     description |-> Get(entity, "description", JStr(<<>>)),
     document |-> document]

\* The history entry of a node query.
NodeQuery(run, params, ok) ==
    [q |-> "node", run |-> run, name |-> params.name, type |-> params.type,
     description |-> params.description, document |-> params.document,
     ok |-> ok]

\* A node loop without the try of lines 181-190: a failing query ends the
\* run.
WriteNodeUnguarded ==
    /\ phase = "nodes"
    /\ node_idx <= Len(seen_entities)
    /\ LET params == NodeParams(UniqueEntities[node_idx], DocumentName)
       IN  \E ok \in QueryReturns :
             /\ queries' = Append(queries, NodeQuery("main", params, ok))
             /\ IF ok
                THEN /\ store_nodes' = MergeNode(store_nodes, params.name, params.type,
                                                 params.description, params.document)
                     /\ nodes_created' = nodes_created + 1
                     /\ node_idx' = node_idx + 1
                     /\ UNCHANGED phase
                ELSE /\ phase' = "raised"
                     /\ UNCHANGED <<store_nodes, nodes_created, node_idx>>
    /\ UNCHANGED <<nchunks, invoked, tpc, permits, llm, results, all_entities,
                   all_relationships, seen_entities, rel_idx, rels_created,
                   store_edges>>
    /\ UNCHANGED chunkVars
    /\ UNCHANGED peerVars
    /\ UNCHANGED retrVars

\* One iteration of the node loop (lines 174-190): the query succeeds and is
\* counted, or execute_query raises and the failure is logged.
WriteNode ==
    /\ phase = "nodes"
    /\ node_idx <= Len(seen_entities)
    /\ LET params == NodeParams(UniqueEntities[node_idx], DocumentName)
       IN  \E ok \in QueryReturns :
             /\ queries' = Append(queries, NodeQuery("main", params, ok))
             /\ IF ok
                THEN /\ store_nodes' = MergeNode(store_nodes, params.name, params.type,
                                                 params.description, params.document)
                     /\ nodes_created' = nodes_created + 1
                ELSE UNCHANGED <<store_nodes, nodes_created>>
    /\ node_idx' = node_idx + 1
    /\ UNCHANGED <<nchunks, invoked, tpc, permits, llm, results, phase, all_entities,
                   all_relationships, seen_entities, rel_idx, rels_created,
                   store_edges>>
    /\ UNCHANGED chunkVars
    /\ UNCHANGED peerVars
    /\ UNCHANGED retrVars

\* One iteration of the node loop of the second run (lines 174-190), on the
\* same store.
PeerWriteNode ==
    /\ peer_idx >= 1
    /\ peer_idx <= Len(peer_entities)
    /\ LET params == NodeParams(peer_entities[peer_idx], peer_document)
       IN  \E ok \in QueryReturns :
             /\ queries' = Append(queries, NodeQuery("peer", params, ok))
             /\ IF ok
                THEN store_nodes' = MergeNode(store_nodes, params.name, params.type,
                                             params.description, params.document)
                ELSE UNCHANGED store_nodes
    /\ peer_idx' = peer_idx + 1
    /\ UNCHANGED <<peer_entities, peer_document>>
    /\ UNCHANGED <<nchunks, invoked, tpc, permits, llm, results, phase, all_entities,
                   all_relationships, seen_entities, node_idx, nodes_created,
                   rel_idx, rels_created, store_edges>>
    /\ UNCHANGED chunkVars
    /\ UNCHANGED retrVars

\* An edge loop that begins while entities are still to be written.
NodesDoneEarly ==
    /\ phase = "nodes"
    /\ phase' = "edges"
    /\ rel_idx' = 1
    /\ UNCHANGED <<nchunks, invoked, tpc, permits, llm, results, all_entities,
                   all_relationships, seen_entities, node_idx, nodes_created,
                   rels_created, store_nodes, store_edges, queries>>
    /\ UNCHANGED chunkVars
    /\ UNCHANGED peerVars
    /\ UNCHANGED retrVars

\* The node loop ends (line 192); the edge loop begins (lines 194-196).
NodesDone ==
    /\ phase = "nodes"
    /\ node_idx > Len(seen_entities)
    /\ phase' = "edges"
    /\ rel_idx' = 1
    /\ UNCHANGED <<nchunks, invoked, tpc, permits, llm, results, all_entities,
                   all_relationships, seen_entities, node_idx, nodes_created,
                   rels_created, store_nodes, store_edges, queries>>
    /\ UNCHANGED chunkVars
    /\ UNCHANGED peerVars
    /\ UNCHANGED retrVars

\* Whether lines 197-199 raise for this item: it has no get(), or its
\* source or target has no strip(), or its type has no replace().
RelRaises(rel) ==
    \/ ~IsDict(rel)
    \/ ~IsStr(Get(rel, "source", JStr(<<>>)))
    \/ ~IsStr(Get(rel, "target", JStr(<<>>)))
    \/ ~IsStr(Get(rel, "type", JStr(sRelatedTo)))

\* Lines 197-200.
RelSource(rel) == Strip(Get(rel, "source", JStr(<<>>)).v)
RelTarget(rel) == Strip(Get(rel, "target", JStr(<<>>)).v)
RelType(rel) == Upper(ReplaceSpaces(Get(rel, "type", JStr(sRelatedTo)).v))
RelDescription(rel) == Get(rel, "description", JStr(<<>>))

\* An edge loop without the test of lines 202-203.
RelSkippedNever(rel) == FALSE

\* "if not source or not target: continue" (lines 202-203).
RelSkipped(rel) == RelSource(rel) = <<>> \/ RelTarget(rel) = <<>>

\* The nodes a MATCH (x:Entity {name: $name}) finds.  The node loop passes
\* the value of the entity's name to the store, the edge loop a string.
Matched(nodes, name) == {n \in nodes : n.name = JStr(name)}

\* A fresh relationship identity.
NewEdgeId(edges) == Cardinality(edges) + 1

\* MATCH a, MATCH b, CALL apoc.merge.relationship(a, $rel_type,
\* {description: $description}, {}, b, {}) (lines 207-213): for every pair
\* matched, a relationship of kind rel_type with that description is found
\* or created.  With no pair matched the query does nothing.
MergeDynamicEdge(nodes, edges, source, target, rel_type, description) ==
    IF Matched(nodes, source) = {} \/ Matched(nodes, target) = {}
    THEN edges
    ELSE IF \E e \in edges : /\ e.source = source
                             /\ e.target = target
                             /\ e.kind = rel_type
                             /\ e.description = description
         THEN edges
         ELSE edges \cup {[id |-> NewEdgeId(edges), source |-> source,
                           target |-> target, kind |-> rel_type,
                           type |-> JNull, description |-> description]}

\* MATCH a, MATCH b, MERGE (a)-[r:RELATED_TO]->(b) SET r.type, r.description
\* (lines 224-229).
MergeStaticEdge(nodes, edges, source, target, rel_type, description) ==
    IF Matched(nodes, source) = {} \/ Matched(nodes, target) = {}
    THEN edges
    ELSE IF \E e \in edges : /\ e.source = source
                             /\ e.target = target
                             /\ e.kind = sRelatedTo
         THEN {IF e.source = source /\ e.target = target /\ e.kind = sRelatedTo
               THEN [e EXCEPT !.type = JStr(rel_type), !.description = description]
               ELSE e : e \in edges}
         ELSE edges \cup {[id |-> NewEdgeId(edges), source |-> source,
                           target |-> target, kind |-> sRelatedTo,
                           type |-> JStr(rel_type), description |-> description]}

\* The history entry of an edge query: q is "edge" for the dynamic-kind
\* query and "fallback" for the RELATED_TO query, idx the position of the
\* relationship in all_relationships.
EdgeQuery(q, idx, rel, ok) ==
    [q |-> q, run |-> "main", idx |-> idx, source |-> RelSource(rel),
     target |-> RelTarget(rel), rel_type |-> RelType(rel),
     description |-> RelDescription(rel), ok |-> ok]

\* An edge loop that issues the RELATED_TO query after every dynamic-kind
\* query, rejected or not.
EdgePrimaryThenFallback ==
    /\ phase = "edges"
    /\ rel_idx <= Len(all_relationships)
    /\ LET rel == all_relationships[rel_idx]
       IN  IF RelRaises(rel)
           THEN /\ phase' = "raised"
                /\ UNCHANGED <<rel_idx, rels_created, store_edges, queries>>
           ELSE IF RelSkipped(rel)
           THEN /\ rel_idx' = rel_idx + 1
                /\ UNCHANGED <<phase, rels_created, store_edges, queries>>
           ELSE \E ok \in QueryReturns :
                  /\ queries' = Append(queries, EdgeQuery("edge", rel_idx, rel, ok))
                  /\ phase' = "fallback"
                  /\ UNCHANGED rel_idx
                  /\ IF ok
                     THEN /\ store_edges' = MergeDynamicEdge(store_nodes, store_edges,
                                                RelSource(rel), RelTarget(rel),
                                                RelType(rel), RelDescription(rel))
                          /\ rels_created' = rels_created + 1
                     ELSE UNCHANGED <<rels_created, store_edges>>
    /\ UNCHANGED <<nchunks, invoked, tpc, permits, llm, results, all_entities,
                   all_relationships, seen_entities, node_idx, nodes_created,
                   store_nodes>>
    /\ UNCHANGED chunkVars
    /\ UNCHANGED peerVars
    /\ UNCHANGED retrVars

\* An iteration of the edge loop up to its first query (lines 196-220): the
\* item raises, or is skipped, or the dynamic-kind query is issued; that
\* query succeeds and the relationship is counted, or it raises and the
\* fallback is next.
EdgePrimary ==
    /\ phase = "edges"
    /\ rel_idx <= Len(all_relationships)
    /\ LET rel == all_relationships[rel_idx]
       IN  IF RelRaises(rel)
           THEN /\ phase' = "raised"
                /\ UNCHANGED <<rel_idx, rels_created, store_edges, queries>>
           ELSE IF RelSkipped(rel)
           THEN /\ rel_idx' = rel_idx + 1
                /\ UNCHANGED <<phase, rels_created, store_edges, queries>>
           ELSE \E ok \in QueryReturns :
                  /\ queries' = Append(queries, EdgeQuery("edge", rel_idx, rel, ok))
                  /\ IF ok
                     THEN /\ store_edges' = MergeDynamicEdge(store_nodes, store_edges,
                                                RelSource(rel), RelTarget(rel),
                                                RelType(rel), RelDescription(rel))
                          /\ rels_created' = rels_created + 1
                          /\ rel_idx' = rel_idx + 1
                          /\ UNCHANGED phase
                     ELSE /\ phase' = "fallback"
                          /\ UNCHANGED <<rel_idx, rels_created, store_edges>>
    /\ UNCHANGED <<nchunks, invoked, tpc, permits, llm, results, all_entities,
                   all_relationships, seen_entities, node_idx, nodes_created,
                   store_nodes>>
    /\ UNCHANGED chunkVars
    /\ UNCHANGED peerVars
    /\ UNCHANGED retrVars

\* The fallback query of an iteration whose first query raised (lines
\* 221-238): it succeeds and the relationship is counted, or it raises and
\* the failure is logged.
EdgeFallback ==
    /\ phase = "fallback"
    /\ LET rel == all_relationships[rel_idx]
       IN  \E ok \in QueryReturns :
             /\ queries' = Append(queries, EdgeQuery("fallback", rel_idx, rel, ok))
             /\ IF ok
                THEN /\ store_edges' = MergeStaticEdge(store_nodes, store_edges,
                                           RelSource(rel), RelTarget(rel),
                                           RelType(rel), RelDescription(rel))
                     /\ rels_created' = rels_created + 1
                ELSE UNCHANGED <<store_edges, rels_created>>
    /\ rel_idx' = rel_idx + 1
    /\ phase' = "edges"
    /\ UNCHANGED <<nchunks, invoked, tpc, permits, llm, results, all_entities,
                   all_relationships, seen_entities, node_idx, nodes_created,
                   store_nodes>>
    /\ UNCHANGED chunkVars
    /\ UNCHANGED peerVars
    /\ UNCHANGED retrVars

\* The edge loop ends and the counts are returned (lines 240-245).
Return ==
    /\ phase = "edges"
    /\ rel_idx > Len(all_relationships)
    /\ phase' = "returned"
    /\ UNCHANGED <<nchunks, invoked, tpc, permits, llm, results, all_entities,
                   all_relationships, seen_entities, node_idx, nodes_created,
                   rel_idx, rels_created, store_nodes, store_edges, queries>>
    /\ UNCHANGED chunkVars
    /\ UNCHANGED peerVars
    /\ UNCHANGED retrVars

\* upload_document (routers/upload.py, lines 107-124), the caller of
\* build_knowledge_graph: the counts returned are answered with status
\* "success"; an exception becomes HTTPException(500, "Processing failed").
UploadResponse ==
    CASE phase = "returned" ->
            [status |-> "success", nodes_created |-> nodes_created,
             relationships_created |-> rels_created]
      [] phase = "raised" -> [status |-> "error", status_code |-> 500]
      [] OTHER -> [status |-> "processing"]

-----------------------------------------------------------------------------
\* build_knowledge_graph as a whole.

\* {"entities": [{"name": null, ...}], "relationships": []}
AnswerNullName ==
    [t |-> "dict",
     entities |-> JList(<<[t |-> "dict", name |-> JNull, type |-> JStr(sPerson)]>>),
     relationships |-> JList(<<>>)]

\* {"entities": null, "relationships": []}
AnswerEntitiesNull ==
    [t |-> "dict", entities |-> JNull, relationships |-> JList(<<>>)]

\* {"entities": [], "relationships": [{"source": "Alice", "target": null}]}
AnswerNullTarget ==
    [t |-> "dict",
     entities |-> JList(<<>>),
     relationships |-> JList(<<[t |-> "dict", source |-> JStr(sAlice), target |-> JNull]>>)]

sWorkedAtSpaced == <<"w", "o", "r", "k", "e", "d", " ", "a", "t">>
sOther == <<"o">>

\* {"relationships": [{"source": " ", "target": "Acme Corp"},
\*                    Alice "worked at" Acme Corp, described otherwise]}
AnswerRedescribed ==
    [t |-> "dict",
     relationships |-> JList(<<[t |-> "dict", source |-> JStr(<<" ">>), target |-> JStr(sAcme)],
                               Relationship(sAlice, sAcme, sWorkedAtSpaced, sOther)>>)]

\* What a model call may come to.
Outcomes ==
    { Timeout, CallError,
      Response(<<Junk>>),
      Response(<<Fence, JsonText(AnswerAliceAcme), Fence>>),
      Response(<<JsonText(AnswerAliceLower)>>),
      Response(<<JsonText(JNull)>>),
      Response(<<JsonText(AnswerEntitiesNull)>>),
      Response(<<JsonText(AnswerNullName)>>),
      Response(<<JsonText(AnswerNullTarget)>>),
      Response(<<JsonText(AnswerRedescribed)>>) }

Init == \E n \in 1..MaxChunks : InitBuildOf(n)

Next ==
    \/ \E i \in Tasks : Start(i)
    \/ \E i \in Tasks : \E o \in Outcomes : Resolve(i, o)
    \/ Gather
    \/ Dedupe
    \/ WriteNode
    \/ NodesDone
    \/ EdgePrimary
    \/ EdgeFallback
    \/ Return

Spec == Init /\ [][Next]_vars

-----------------------------------------------------------------------------
\* The merge step over every short list of entities: a run over one chunk
\* whose answer carries the list.

sOpenAI == <<"O", "p", "e", "n", "A", "I">>
sOpenAISpaced == <<" ", "o", "p", "e", "n", "a", "i", " ">>
sOpenAIKey == <<"o", "p", "e", "n", "a", "i">>
sOrg == <<"O", "R", "G">>
sFirst == <<"f", "i", "r", "s", "t">>
sSecond == <<"s", "e", "c", "o", "n", "d">>

\* The entities the lists are made of: two spellings of one name with
\* different descriptions, another name, a blank name, an empty name, and an
\* entity without a name.
MergeEntities ==
    { Entity(sOpenAI, sOrg, sFirst),
      Entity(sOpenAISpaced, sOrg, sSecond),
      Entity(sAlice, sPerson, sDesc),
      Entity(<<" ", " ">>, sOrg, sDesc),
      Entity(<<>>, sOrg, sDesc),
      [t |-> "dict", type |-> JStr(sOrg), description |-> JStr(sDesc)] }

MergeOutcomes ==
    { Response(<<JsonText([t |-> "dict", entities |-> JList(es)])>>) :
        es \in UNION {[1..n -> MergeEntities] : n \in 0..MaxMergeLen} }

InitMerge == InitBuildOf(1)

NextMerge ==
    \/ \E i \in Tasks : Start(i)
    \/ \E i \in Tasks : \E o \in MergeOutcomes : Resolve(i, o)
    \/ Gather
    \/ Dedupe

SpecMerge == InitMerge /\ [][NextMerge]_vars

-----------------------------------------------------------------------------
\* Two ingestion runs writing their nodes to one store: a run over one chunk
\* whose answer carries any short list of entities, and a second run, of the
\* same document again or of another one, that has reached its node loop
\* with any deduplicated list.  Their queries interleave in every order.

OtherDocument == "other.pdf"

\* Two entities of one name that differ in type and description, another
\* spelling of that name, and another name.
UpsertEntities ==
    { Entity(sAlice, sPerson, sDesc),
      Entity(sAlice, sCompany, sFirst),
      Entity(sAliceLower, sPerson, <<>>),
      Entity(sAcme, sCompany, sDesc) }

UpsertLists == UNION {[1..n -> UpsertEntities] : n \in 0..MaxUpsertLen}

UpsertOutcomes ==
    { Response(<<JsonText([t |-> "dict", entities |-> JList(es)])>>) : es \in UpsertLists }

\* list(seen_entities.values()) for the entities es (lines 164-169).
UniqueOf(es) ==
    LET seen == MergeAll(<<>>, es).seen
    IN  [k \in 1..Len(seen) |-> seen[k][2]]

InitUpsert ==
    /\ InitRunOf(1)
    /\ peer_entities \in {UniqueOf(es) : es \in UpsertLists}
    /\ peer_document \in {DocumentName, OtherDocument}
    /\ peer_idx = 1

NextUpsert ==
    \/ \E i \in Tasks : Start(i)
    \/ \E i \in Tasks : \E o \in UpsertOutcomes : Resolve(i, o)
    \/ Gather
    \/ Dedupe
    \/ WriteNode
    \/ PeerWriteNode

SpecUpsert == InitUpsert /\ [][NextUpsert]_vars

-----------------------------------------------------------------------------
\* _retrieve_subgraph (services/chat_engine.py, lines 34-101) on the graph
\* the ingestion runs have written.

\* "LIMIT 10" of the search query and "LIMIT 20" of the fallback query.
SearchLimit == 10
SampleLimit == 20

\* "No relevant information found in the knowledge graph." (line 101)
Sentinel ==
    <<"N", "o", " ", "r", "e", "l", "e", "v", "a", "n", "t", " ", "i", "n",
      "f", "o", "r", "m", "a", "t", "i", "o", "n", " ", "f", "o", "u",
      "n", "d", " ", "i", "n", " ", "t", "h", "e", " ", "k", "n", "o",
      "w", "l", "e", "d", "g", "e", " ", "g", "r", "a", "p", "h", ".">>

sEntityOpen == <<"E", "n", "t", "i", "t", "y", ":", " ">>
sTypeOpen == <<" ", "(", "T", "y", "p", "e", ":", " ">>
sClose == <<")">>
sDescriptionOpen == <<"\n", " ", " ", "D", "e", "s", "c", "r", "i", "p", "t", "i", "o",
      "n", ":", " ">>
sRelationshipsOpen == <<"\n", " ", " ", "R", "e", "l", "a", "t", "i", "o", "n", "s", "h",
      "i", "p", "s", ":", "\n">>
sLineOpen == <<" ", " ", "→", " ">>
sArrow == <<" ", "→", " ">>
sRelatedOpen == <<" ", "(">>
sNone == <<"N", "o", "n", "e">>
sThing == <<"T", "H", "I", "N", "G">>

\* A value as an f-string shows it.
Str(x) == IF IsStr(x) THEN x.v ELSE sNone

\* A value as "if value:" reads it.
Truthy(x) == IsStr(x) /\ x.v # <<>>

\* Cypher's CONTAINS on two strings.
Contains(s, sub) ==
    \E i \in 0..(Len(s) - Len(sub)) : SubSeq(s, i + 1, i + Len(sub)) = sub

\* "toLower(n.name) CONTAINS toLower($query) OR toLower(n.description)
\* CONTAINS toLower($query)" (lines 42-43); a property that is not a string
\* matches nothing.
MatchesQuery(n, q) ==
    \/ IsStr(n.name) /\ Contains(Lower(n.name.v), Lower(q))
    \/ IsStr(n.description) /\ Contains(Lower(n.description.v), Lower(q))

\* "OPTIONAL MATCH (n)-[r]-(m:Entity)" and "collect(DISTINCT {...})" (lines
\* 46-56): a map per neighbour and relationship kind, in either direction;
\* for a node without relationships, the one map of nulls.
Connections(n, nodes, edges) ==
    LET found ==
          {[related_entity |-> m.name, related_type |-> m.type,
            relationship |-> JStr(e.kind), related_description |-> m.description] :
             <<e, m>> \in {em \in edges \X nodes :
                 \/ JStr(em[1].source) = n.name /\ JStr(em[1].target) = em[2].name
                 \/ JStr(em[1].target) = n.name /\ JStr(em[1].source) = em[2].name}}
    IN  IF found = {}
        THEN {[related_entity |-> JNull, related_type |-> JNull,
               relationship |-> JNull, related_description |-> JNull]}
        ELSE found

\* A set as a list, in some order.
RECURSIVE SeqOf(_)
SeqOf(S) ==
    IF S = {} THEN <<>>
    ELSE LET x == CHOOSE y \in S : TRUE
         IN  <<x>> \o SeqOf(S \ {x})

\* The record returned for the node n (lines 47-56).
RecordOf(n, nodes, edges) ==
    [entity |-> n.name, type |-> n.type, description |-> n.description,
     connections |-> SeqOf(Connections(n, nodes, edges))]

\* The sets S less k of its elements: what "LIMIT" may keep of S when it
\* has k elements too many.
RECURSIVE Drop(_, _)
Drop(S, k) ==
    IF k <= 0 THEN {S}
    ELSE UNION {Drop(S \ {x}, k - 1) : x \in S}

\* What "LIMIT limit" may keep of the rows S.
Limited(S, limit) == Drop(S, Cardinality(S) - limit)

\* "\n".join(parts) and "\n\n".join(parts)
RECURSIVE Join(_, _)
Join(parts, sep) ==
    IF parts = <<>> THEN <<>>
    ELSE IF Len(parts) = 1 THEN parts[1]
    ELSE parts[1] \o sep \o Join(Tail(parts), sep)

\* conn_lines (lines 90-95): a line per connection that names an entity.
RECURSIVE ConnLines(_)
ConnLines(connections) ==
    IF connections = <<>> THEN <<>>
    ELSE LET conn == Head(connections)
             line == sLineOpen \o Str(conn.relationship) \o sArrow
                        \o Str(conn.related_entity) \o sRelatedOpen
                        \o Str(conn.related_type) \o sClose
         IN  IF Truthy(conn.related_entity)
             THEN <<line>> \o ConnLines(Tail(connections))
             ELSE ConnLines(Tail(connections))

\* entity_info of a record (lines 84-97).
EntityInfo(record) ==
    LET header == sEntityOpen \o Str(record.entity) \o sTypeOpen
                     \o Str(record.type) \o sClose
        described == IF Truthy(record.description)
                     THEN header \o sDescriptionOpen \o Str(record.description)
                     ELSE header
        conn_lines == ConnLines(record.connections)
    IN  IF conn_lines # <<>>
        THEN described \o sRelationshipsOpen \o Join(conn_lines, <<"\n">>)
        ELSE described

\* A retrieval that trusts the search and never samples the graph.
NeedsFallbackNever(rows) == FALSE

\* "if not results:" (line 62)
NeedsFallback(rows) == rows = <<>>

\* The history entry of a retrieval query.
ReadQuery(q, ok) == [q |-> q, run |-> "retrieve", ok |-> ok]

\* Lines 58-60: the search query is run; it returns at most 10 matching
\* entities with their connections, or execute_query raises.
RetrieveSearch ==
    /\ rpc = "search"
    /\ \E ok \in QueryReturns :
         /\ queries' = Append(queries, ReadQuery("search", ok))
         /\ IF ok
            THEN \E kept \in Limited({n \in store_nodes : MatchesQuery(n, r_query)},
                                     SearchLimit) :
                   /\ r_results' = SeqOf({RecordOf(n, store_nodes, store_edges) : n \in kept})
                   /\ rpc' = IF NeedsFallback(r_results') THEN "fallback" ELSE "format"
            ELSE /\ rpc' = "raised"
                 /\ UNCHANGED r_results
    /\ UNCHANGED <<r_query, context_parts, r_context>>
    /\ UNCHANGED <<nchunks, invoked, tpc, permits, llm, results, phase, all_entities,
                   all_relationships, seen_entities, node_idx, nodes_created,
                   rel_idx, rels_created, store_nodes, store_edges>>
    /\ UNCHANGED chunkVars
    /\ UNCHANGED peerVars

\* Lines 62-79: the search found nothing, the fallback query is run; it
\* returns at most 20 of the entities with their connections, or
\* execute_query raises.
RetrieveFallback ==
    /\ rpc = "fallback"
    /\ \E ok \in QueryReturns :
         /\ queries' = Append(queries, ReadQuery("sample", ok))
         /\ IF ok
            THEN \E kept \in Limited({RecordOf(n, store_nodes, store_edges) :
                                         n \in store_nodes}, SampleLimit) :
                   /\ r_results' = SeqOf(kept)
                   /\ rpc' = "format"
            ELSE /\ rpc' = "raised"
                 /\ UNCHANGED r_results
    /\ UNCHANGED <<r_query, context_parts, r_context>>
    /\ UNCHANGED <<nchunks, invoked, tpc, permits, llm, results, phase, all_entities,
                   all_relationships, seen_entities, node_idx, nodes_created,
                   rel_idx, rels_created, store_nodes, store_edges>>
    /\ UNCHANGED chunkVars
    /\ UNCHANGED peerVars

\* Lines 81-101: every record is rendered and the blocks are joined; with
\* no block the sentinel is returned.
RetrieveFormat ==
    /\ rpc = "format"
    /\ context_parts' = [k \in 1..Len(r_results) |-> EntityInfo(r_results[k])]
    /\ r_context' = IF context_parts' # <<>>
                    THEN Join(context_parts', <<"\n", "\n">>)
                    ELSE Sentinel
    /\ rpc' = "done"
    /\ UNCHANGED <<r_query, r_results>>
    /\ UNCHANGED buildVars
    /\ UNCHANGED chunkVars
    /\ UNCHANGED peerVars

Digits == <<"0", "1", "2", "3", "4", "5", "6", "7", "8", "9">>

\* The node an earlier ingestion left for its i-th entity: no description,
\* no relationship.
FillerNode(i) ==
    [name |-> JStr(<<"f", Digits[(i \div 10) + 1], Digits[(i % 10) + 1]>>),
     type |-> JStr(sThing), description |-> JStr(<<>>), document |-> OtherDocument]

\* The nodes of Alice, alice and Acme Corp as the node loop writes them.
NamedNodes ==
    { NodeParams(Entity(sAlice, sPerson, sDesc), DocumentName),
      NodeParams(Entity(sAliceLower, sPerson, <<>>), DocumentName),
      NodeParams(Entity(sAcme, sCompany, sDesc), DocumentName) }

\* The relationships the edge loop may have left between Alice and Acme
\* Corp in a graph of these nodes: none, the dynamic-kind one, the
\* RELATED_TO one, or both.
EdgeSetsOf(nodes) ==
    LET dyn(edges) == MergeDynamicEdge(nodes, edges, sAlice, sAcme, sWorkedAt, JStr(sDesc))
        static(edges) == MergeStaticEdge(nodes, edges, sAlice, sAcme, sWorkedAt, JStr(sDesc))
    IN  { {}, dyn({}), static({}), static(dyn({})) }

\* The graphs searched: any of the named nodes, up to MaxFiller others, and
\* relationships between nodes that are there.
RetrievalGraphs ==
    { [nodes |-> named \cup {FillerNode(i) : i \in 1..k}, edges |-> edges] :
        <<named, k, edges>> \in
            { t \in (SUBSET NamedNodes) \X (0..MaxFiller) \X EdgeSetsOf(NamedNodes) :
                t[3] \in EdgeSetsOf(t[1]) } }

\* Queries: part of a name, part of a name in capitals, a description in
\* capitals, and a string that is in no name or description.
RetrievalQueries ==
    { <<"a", "l", "i">>, <<"C", "O", "R", "P">>, <<"D">>, <<"z", "z">> }

\* _retrieve_subgraph has been called; no ingestion is running.
InitRetrieve ==
    /\ ChunkIdle
    /\ PeerIdle
    /\ nchunks = 0
    /\ invoked = <<>>
    /\ tpc = <<>>
    /\ permits = 0
    /\ llm = <<>>
    /\ results = <<>>
    /\ phase = "idle"
    /\ all_entities = <<>>
    /\ all_relationships = <<>>
    /\ seen_entities = <<>>
    /\ node_idx = 0
    /\ nodes_created = 0
    /\ rel_idx = 0
    /\ rels_created = 0
    /\ queries = <<>>
    /\ \E g \in RetrievalGraphs :
         /\ store_nodes = g.nodes
         /\ store_edges = g.edges
    /\ r_query \in RetrievalQueries
    /\ r_results = <<>>
    /\ context_parts = <<>>
    /\ r_context = <<>>
    /\ rpc = "search"

NextRetrieve ==
    \/ RetrieveSearch
    \/ RetrieveFallback
    \/ RetrieveFormat

SpecRetrieve == InitRetrieve /\ [][NextRetrieve]_vars

\* Every model call responds, fails or hits its timeout (asyncio.wait_for,
\* line 98), and the event loop runs every task that can run: while a step
\* of the phase is possible, one is taken.
FairConc == SpecConc /\ WF_vars(NextConc)

-----------------------------------------------------------------------------
\* The extraction phase with every sort of end a call can come to: an answer
\* that parses, an answer that does not, an exception, a timeout.

GateOutcomes == ConcOutcomes \cup {Response(<<Junk>>)}

\* What the call of task i may come to.  The gate does not look at the chunk
\* or at the answer, so the four ends are shared out between the tasks: a
\* timeout or an answer that parses for the odd chunks, an exception or an
\* answer that does not parse for the even ones.
GateOutcomesOf(i) ==
    IF i % 2 = 1
    THEN {Timeout, Response(<<Fence, JsonText(AnswerAliceAcme), Fence>>)}
    ELSE {CallError, Response(<<Junk>>)}

NextGate ==
    \/ \E i \in Tasks : Start(i)
    \/ \E i \in Tasks : \E o \in GateOutcomesOf(i) : Resolve(i, o)
    \/ Gather

SpecGate == InitConc /\ [][NextGate]_vars

\* The event loop runs every task that can run, and wait_for ends every call
\* (line 98), so the phase does not stop while a step is possible.
FairGate == SpecGate /\ WF_vars(NextGate)

-----------------------------------------------------------------------------
\* Properties of the extraction phase.

\* C1: in every reachable state the number of extraction calls started and
\* not yet resolved is at most the admission limit, whatever the number of
\* chunks and the order of completions, failures and timeouts.
C1_AtMostLimitOutstanding == Cardinality(Outstanding) <= MaxParallel

\* More chunks than permits: the limit is reached, and a task waits behind it.
C1_Witness ==
    /\ nchunks > MaxParallel
    /\ Cardinality(Outstanding) = MaxParallel
    /\ \E i \in Tasks : tpc[i] = "waiting"

\* What chunk i contributes: the parsed answer of its call, or the empty
\* result if the call timed out or failed.
OwnResult(i) ==
    IF llm[i].kind = "text" THEN ParseLLMJson(llm[i].text) ELSE EmptyResult

\* C2: the batch eventually completes; when it has, every task has resolved,
\* and each chunk has contributed its own result: the empty result exactly
\* for the chunks whose call timed out or failed, whatever their siblings did.
C2_BatchCompletes ==
    /\ <>(phase = "gathered")
    /\ [](phase = "gathered" =>
            \A i \in Tasks :
                /\ tpc[i] = "done"
                /\ results[i] = OwnResult(i)
                /\ (results[i] = EmptyResult <=> llm[i].kind \in {"timeout", "error"}))

\* The batch has completed with one chunk timed out, one failed and another
\* one carrying its entities.
C2_Witness ==
    /\ phase = "gathered"
    /\ \E i, j, k \in Tasks :
          /\ llm[i] = Timeout
          /\ llm[j] = CallError
          /\ results[k] = AnswerAliceAcme
          /\ i < k

-----------------------------------------------------------------------------
\* Properties of the aggregation and of the extraction client.

\* The number of occurrences of x in the sequence seq.
CountIn(x, seq) == Cardinality({k \in 1..Len(seq) : seq[k] = x})

\* The items chunk i returned under `key`.
PerChunk(i, key) == Iter(Get(results[i], key, JList(<<>>)))

\* The aggregated list kept under `key`.
Aggregated(key) == IF key = "entities" THEN all_entities ELSE all_relationships

\* C3: after the concurrent extraction phase the aggregated entity list and
\* the aggregated relationship list hold exactly the items of the per-chunk
\* results, each as many times as the chunks returned it.
C3_AggregateIsUnion ==
    (phase \notin {"idle", "extract"} /\ \A i \in Tasks : tpc[i] = "done") =>
        \A key \in {"entities", "relationships"} :
            \A x \in {Aggregated(key)[k] : k \in 1..Len(Aggregated(key))}
                     \cup UNION {{PerChunk(i, key)[k] : k \in 1..Len(PerChunk(i, key))} : i \in Tasks} :
                CountIn(x, Aggregated(key))
                    = Cardinality(UNION {{<<i, k>> : k \in {k \in 1..Len(PerChunk(i, key)) :
                                                                PerChunk(i, key)[k] = x}} :
                                         i \in Tasks})

\* Three chunks were aggregated: the same entity came from two of them, the
\* third timed out.
C3_Witness ==
    /\ phase = "gathered"
    /\ nchunks = 3
    /\ llm[1] = Timeout
    /\ results[2] = AnswerAliceAcme
    /\ results[3] = AnswerAliceAcme
    /\ CountIn(Entity(sAlice, sPerson, sDesc), all_entities) = 2
    /\ Len(all_relationships) = 2

\* json.loads accepts the text once the fences are removed.
Decodes(text) ==
    LET cleaned == SelectSeq(text, LAMBDA x : x # Fence)
    IN  Len(cleaned) = 1 /\ cleaned[1].k = "json"

\* The answer is parsed, but not into a dict whose "entities" and
\* "relationships" have a length.
Unusable(value) ==
    \/ ~IsDict(value)
    \/ ~HasLen(Get(value, "entities", JList(<<>>)))
    \/ ~HasLen(Get(value, "relationships", JList(<<>>)))

\* C4 as stated: _extract_with_timeout never raises; after a timeout, a
\* model failure or unparseable output it returns the empty result, and
\* otherwise the parsed result.
C4_ParsedResultOtherwise ==
    \A i \in Tasks :
        tpc[i] \in {"done", "failed"} =>
            /\ tpc[i] = "done"
            /\ IF \/ llm[i].kind \in {"timeout", "error"}
                  \/ (llm[i].kind = "text" /\ ~Decodes(llm[i].text))
               THEN results[i] = EmptyResult
               ELSE results[i] = ParseLLMJson(llm[i].text)

\* C4, amended: _extract_with_timeout never raises; it returns the empty
\* result after a timeout, a model failure, unparseable output, and also
\* after parseable output that is not a dict or whose "entities" or
\* "relationships" has no length; otherwise it returns the parsed result.
C4_NeverRaises ==
    \A i \in Tasks :
        tpc[i] \in {"done", "failed"} =>
            /\ tpc[i] = "done"
            /\ IF \/ llm[i].kind \in {"timeout", "error"}
                  \/ (llm[i].kind = "text" /\ ~Decodes(llm[i].text))
                  \/ (llm[i].kind = "text" /\ Unusable(ParseLLMJson(llm[i].text)))
               THEN results[i] = EmptyResult
               ELSE results[i] = ParseLLMJson(llm[i].text)

\* Three calls have resolved: one failed, one answered the JSON text null,
\* one answered a fenced JSON object, which was returned as parsed.
C4_Witness ==
    /\ nchunks = 3
    /\ llm[1] = CallError
    /\ llm[2] = Response(<<JsonText(JNull)>>)
    /\ llm[3] = Response(<<Fence, JsonText(AnswerAliceAcme), Fence>>)
    /\ results[1] = EmptyResult
    /\ results[2] = EmptyResult
    /\ results[3] = AnswerAliceAcme

\* A result in the shape {entities: list of objects, relationships: list of
\* objects}.
WellFormedResult(r) ==
    /\ IsDict(r)
    /\ \A key \in {"entities", "relationships"} :
          /\ Get(r, key, JList(<<>>)).t = "list"
          /\ \A k \in 1..Len(Get(r, key, JList(<<>>)).v) : IsDict(Get(r, key, JList(<<>>)).v[k])

\* C5: whatever text the model returns for a chunk, the chunk's outcome is a
\* well-formed or empty result and no exception propagates out of
\* build_knowledge_graph.
C5_MalformedAnswerAbsorbed ==
    /\ \A i \in Tasks : tpc[i] = "done" => WellFormedResult(results[i])
    /\ phase # "raised"

-----------------------------------------------------------------------------
\* Properties of the merge step.

\* The normalized key of an entity: its name trimmed and lower-cased (empty
\* if it has no name).
NormKey(entity) == Lower(Strip(Get(entity, "name", JStr(<<>>)).v))

\* C10: the merge step yields exactly one entity per normalized key: no key
\* occurs twice, no entity with an empty or missing name survives, every
\* named entity's key is present, and the entity kept for a key is, with all
\* its fields, the last entity of the list having that key.
C10_MergeLastWriteWins ==
    phase = "nodes" =>
        /\ \A j, k \in 1..Len(seen_entities) :
              seen_entities[j][1] = seen_entities[k][1] => j = k
        /\ \A k \in 1..Len(seen_entities) :
              /\ seen_entities[k][1] # <<>>
              /\ \E n \in 1..Len(all_entities) :
                    /\ NormKey(all_entities[n]) = seen_entities[k][1]
                    /\ all_entities[n] = seen_entities[k][2]
                    /\ \A m \in (n + 1)..Len(all_entities) :
                          NormKey(all_entities[m]) # seen_entities[k][1]
        /\ \A n \in 1..Len(all_entities) :
              NormKey(all_entities[n]) # <<>> =>
                  \E k \in 1..Len(seen_entities) :
                      seen_entities[k][1] = NormKey(all_entities[n])

\* "OpenAI" then " openai " (and an entity without a name) were merged into
\* one entity keyed "openai", equal to the second record.
C10_Witness ==
    /\ phase = "nodes"
    /\ all_entities = <<Entity(sOpenAI, sOrg, sFirst),
                        [t |-> "dict", type |-> JStr(sOrg), description |-> JStr(sDesc)],
                        Entity(sOpenAISpaced, sOrg, sSecond)>>
    /\ seen_entities = << <<sOpenAIKey, Entity(sOpenAISpaced, sOrg, sSecond)>> >>

-----------------------------------------------------------------------------
\* Properties of the graph writer.

\* The node queries the store has executed for a name, as positions in the
\* history.
NodeUpserts(name) ==
    {k \in 1..Len(queries) :
        /\ queries[k].q = "node"
        /\ queries[k].ok
        /\ queries[k].name = name}

\* C11: after any sequence of node upserts, those of two concurrent runs
\* interleaved in any order included, the store holds at most one Entity
\* node per name, a node for every name upserted, and each node carries the
\* type, description and document of the latest upsert the store executed
\* for its name; so upserting the same arguments twice leaves one node.
C11_OneNodePerName ==
    /\ \A n1 \in store_nodes : \A n2 \in store_nodes : n1.name = n2.name => n1 = n2
    /\ \A n \in store_nodes :
         /\ NodeUpserts(n.name) # {}
         /\ LET last == queries[Max(NodeUpserts(n.name))]
            IN  /\ n.type = last.type
                /\ n.description = last.description
                /\ n.document = last.document
    /\ \A k \in 1..Len(queries) :
         (queries[k].q = "node" /\ queries[k].ok)
            => Cardinality({n \in store_nodes : n.name = queries[k].name}) = 1

\* The two runs have upserted one name with different types and different
\* documents, the second run's query between two queries of the first, and
\* the store holds one node of that name.
C11_Witness ==
    /\ Len(queries) >= 3
    /\ \A k \in 1..3 : queries[k].q = "node" /\ queries[k].ok
    /\ queries[1].run = "main" /\ queries[2].run = "peer" /\ queries[3].run = "main"
    /\ queries[1].name = queries[2].name
    /\ queries[1].type # queries[2].type
    /\ queries[1].document # queries[2].document
    /\ Cardinality({n \in store_nodes : n.name = queries[1].name}) = 1

\* C12: the store holds at most one edge per source name, target name and
\* relationship kind, whatever the descriptions of the upserts and whichever
\* of the two queries made the edge.
C12_OneEdgePerKind ==
    \A e1 \in store_edges : \A e2 \in store_edges :
        (e1.source = e2.source /\ e1.target = e2.target /\ e1.kind = e2.kind)
            => e1 = e2

\* The edge queries of kind q the run issued for the relationship at
\* position k of all_relationships, as positions in the history.
EdgeQueries(q, k) ==
    {j \in 1..Len(queries) :
        /\ queries[j].q = q
        /\ queries[j].run = "main"
        /\ queries[j].idx = k}

\* The node queries of the run, as positions in the history.
NodeQueries ==
    {j \in 1..Len(queries) : queries[j].q = "node" /\ queries[j].run = "main"}

\* The store holds an edge of that kind from a node named source to a node
\* named target.
EdgeBetween(source, target, kind) ==
    /\ Matched(store_nodes, source) # {}
    /\ Matched(store_nodes, target) # {}
    /\ \E e \in store_edges : e.source = source /\ e.target = target /\ e.kind = kind

\* The kind of the edge a query of kind q makes.
EffectiveKind(q, rel_type) == IF q = "edge" THEN rel_type ELSE sRelatedTo

\* A query the store executed for the relationship at position k created or
\* matched an edge between its endpoints.
EdgeAchieved(k) ==
    \E j \in EdgeQueries("edge", k) \cup EdgeQueries("fallback", k) :
        /\ queries[j].ok
        /\ EdgeBetween(queries[j].source, queries[j].target,
                       EffectiveKind(queries[j].q, queries[j].rel_type))

\* C13: the counts returned are counts of achieved writes: nodes_created is
\* the number of canonical entities whose node the store holds, and
\* relationships_created the number of relationship records for which an
\* edge between the endpoint nodes was created or matched.
C13_CountsAreAchievedWrites ==
    phase = "returned" =>
        /\ nodes_created =
              Cardinality({k \in 1..Len(seen_entities) :
                  \E n \in store_nodes :
                      n.name = NodeParams(UniqueEntities[k], DocumentName).name})
        /\ rels_created =
              Cardinality({k \in 1..Len(all_relationships) : EdgeAchieved(k)})

\* Every query the run issued was executed by the store.
AllWritesSucceeded == \A j \in 1..Len(queries) : queries[j].ok

\* Chunk 1 yields Alice, Acme Corp and Alice WORKED_AT Acme Corp, chunk 2
\* yields alice, chunk 3 times out.
AliceScenario ==
    /\ nchunks = 3
    /\ llm[1] = Response(<<Fence, JsonText(AnswerAliceAcme), Fence>>)
    /\ llm[2] = Response(<<JsonText(AnswerAliceLower)>>)
    /\ llm[3] = Timeout

\* C14: on an empty store the run of that document, all of whose writes
\* succeed, ends with 2 entities and 1 relationship in the graph and
\* returns nodes_created = 2 and relationships_created = 1.
C14_AliceAcmeEndToEnd ==
    (phase = "returned" /\ AliceScenario /\ AllWritesSucceeded) =>
        /\ Cardinality(store_nodes) = 2
        /\ Cardinality(store_edges) = 1
        /\ nodes_created = 2
        /\ rels_created = 1

\* The name is, as written, the name of an extracted entity, and the node
\* query of the canonical entity of that name was executed by the store.
NamesWrittenEntity(name) ==
    \E n \in 1..Len(all_entities) :
        /\ Get(all_entities[n], "name", JStr(<<>>)) = JStr(name)
        /\ \E k \in 1..Len(seen_entities) :
              /\ seen_entities[k][1] = NormKey(all_entities[n])
              /\ \E j \in NodeQueries :
                    /\ queries[j].ok
                    /\ queries[j].name = NodeParams(UniqueEntities[k], DocumentName).name

\* C15: an edge query the store executed, for a relationship whose source
\* and target name entities of the run whose nodes were written, found
\* both endpoint nodes, and the edge is in the store.
C15_EndpointsFound ==
    \A j \in 1..Len(queries) :
        ( /\ queries[j].q \in {"edge", "fallback"}
          /\ queries[j].ok
          /\ NamesWrittenEntity(queries[j].source)
          /\ NamesWrittenEntity(queries[j].target) )
        => EdgeBetween(queries[j].source, queries[j].target,
                       EffectiveKind(queries[j].q, queries[j].rel_type))

\* The edge queries of the run, of both kinds, as positions in the history.
AllEdgeQueries ==
    {j \in 1..Len(queries) :
        queries[j].q \in {"edge", "fallback"} /\ queries[j].run = "main"}

\* C16: when a query is issued to the store no extraction call is
\* outstanding, every task having returned; and when an edge query is
\* issued, a node query has been issued before it, once, for each canonical
\* entity, whether the store executed it or not.
C16_NodesBeforeEdges ==
    /\ queries # <<>> =>
          /\ Outstanding = {}
          /\ \A i \in Tasks : tpc[i] = "done"
    /\ \A j \in AllEdgeQueries :
          /\ Cardinality({i \in NodeQueries : i < j}) = Len(seen_entities)
          /\ NodeQueries = 1..Len(seen_entities)
          /\ \A k \in 1..Len(seen_entities) :
                queries[k].name = NodeParams(UniqueEntities[k], DocumentName).name

\* Two node queries, the first of which the store rejected, were issued
\* before the first edge query.
C16_Witness ==
    /\ Len(queries) >= 3
    /\ queries[1].q = "node" /\ ~queries[1].ok
    /\ queries[2].q = "node" /\ queries[2].ok
    /\ queries[3].q = "edge"

\* Lines 197-198 leave the source or the target of the record empty.
EmptyEndpoint(rel) ==
    \/ Strip(Get(rel, "source", JStr(<<>>)).v) = <<>>
    \/ Strip(Get(rel, "target", JStr(<<>>)).v) = <<>>

\* The records of all_relationships before position n that are not skipped.
Written(n) ==
    {k \in 1..(n - 1) : ~EmptyEndpoint(all_relationships[k])}

\* No query issued for the record at position k was executed.
EdgeFailed(k) ==
    \A j \in EdgeQueries("edge", k) \cup EdgeQueries("fallback", k) : ~queries[j].ok

\* C17: a query the store rejects never ends the run.  Once the writes have
\* begun the run only ends early on a relationship record that cannot be
\* read (C5); every canonical entity gets its node query and every record
\* reached that has endpoints gets its edge query, whatever failed before;
\* and the counts returned are those of the entities and of the records
\* with endpoints, less the ones whose queries all failed.
C17_WriteFailuresAbsorbed ==
    /\ (phase = "raised" /\ queries # <<>>) =>
          /\ rel_idx \in 1..Len(all_relationships)
          /\ RelRaises(all_relationships[rel_idx])
    /\ phase = "nodes" => Cardinality(NodeQueries) = node_idx - 1
    /\ phase \in {"edges", "fallback", "returned"} =>
          /\ Cardinality(NodeQueries) = Len(seen_entities)
          /\ \A k \in Written(rel_idx) : EdgeQueries("edge", k) # {}
    /\ phase = "returned" =>
          /\ rel_idx = Len(all_relationships) + 1
          /\ nodes_created =
                Len(seen_entities) - Cardinality({j \in NodeQueries : ~queries[j].ok})
          /\ rels_created =
                Cardinality(Written(rel_idx))
                    - Cardinality({k \in Written(rel_idx) : EdgeFailed(k)})

\* The run returned although the store rejected the first node query and
\* both queries of the first relationship: the second node and a later
\* relationship were written and counted.
C17_Witness ==
    /\ phase = "returned"
    /\ Len(seen_entities) = 2
    /\ ~queries[1].ok /\ queries[2].ok
    /\ nodes_created = 1
    /\ EdgeQueries("edge", 1) # {} /\ EdgeFailed(1)
    /\ \E k \in 2..Len(all_relationships) :
          \E j \in EdgeQueries("edge", k) : queries[j].ok
    /\ rels_created = 1

\* The RELATED_TO queries the store executed between two names, as
\* positions in the history.
FallbacksBetween(source, target) ==
    {j \in 1..Len(queries) :
        /\ queries[j].q = "fallback"
        /\ queries[j].ok
        /\ queries[j].source = source
        /\ queries[j].target = target}

\* C18: every record reached that has endpoints gets the dynamic-kind query
\* first and once.  The RELATED_TO query is issued for a record exactly
\* when its dynamic-kind query was rejected, right after it and with the
\* same source, target, rel_type and description, and never when it was
\* executed; between endpoints it finds, it leaves a RELATED_TO edge
\* carrying rel_type and description as properties.  rels_created is the
\* number of records one of whose queries was executed: a record adds at
\* most 1.
C18_PrimaryThenFallback ==
    /\ \A k \in 1..Len(all_relationships) :
          LET P == EdgeQueries("edge", k)
              F == EdgeQueries("fallback", k)
          IN  /\ Cardinality(P) <= 1
              /\ Cardinality(F) <= 1
              /\ F # {} => P # {}
              /\ (k < rel_idx /\ ~EmptyEndpoint(all_relationships[k])) => P # {}
              /\ \A j \in P :
                    /\ queries[j].ok => F = {}
                    /\ ~queries[j].ok =>
                          \/ phase = "fallback" /\ rel_idx = k /\ F = {}
                          \/ F = {j + 1}
                    /\ \A f \in F :
                          /\ queries[f].source = queries[j].source
                          /\ queries[f].target = queries[j].target
                          /\ queries[f].rel_type = queries[j].rel_type
                          /\ queries[f].description = queries[j].description
    /\ \A f \in 1..Len(queries) :
          ( /\ queries[f].q = "fallback"
            /\ queries[f].ok
            /\ Matched(store_nodes, queries[f].source) # {}
            /\ Matched(store_nodes, queries[f].target) # {}
            /\ f = Max(FallbacksBetween(queries[f].source, queries[f].target)) )
          => \E e \in store_edges :
                /\ e.source = queries[f].source
                /\ e.target = queries[f].target
                /\ e.kind = sRelatedTo
                /\ e.type = JStr(queries[f].rel_type)
                /\ e.description = queries[f].description
    /\ rels_created =
          Cardinality({k \in 1..Len(all_relationships) :
              \E j \in EdgeQueries("edge", k) \cup EdgeQueries("fallback", k) :
                  queries[j].ok})

\* The dynamic-kind query of the first relationship was rejected and its
\* RELATED_TO query made an edge carrying WORKED_AT as a property; the
\* dynamic-kind query of a later relationship was executed and no RELATED_TO
\* query followed; both are counted.
C18_Witness ==
    /\ phase = "returned"
    /\ \E j \in EdgeQueries("edge", 1) :
          /\ ~queries[j].ok
          /\ queries[j + 1].q = "fallback" /\ queries[j + 1].ok
    /\ \E e \in store_edges : e.kind = sRelatedTo /\ e.type = JStr(sWorkedAt)
    /\ \E k \in 2..Len(all_relationships) :
          /\ \E j \in EdgeQueries("edge", k) : queries[j].ok
          /\ EdgeQueries("fallback", k) = {}
    /\ rels_created = 2

\* The edge loop is at a record whose fields lines 197-200 can read and
\* whose source or target is empty after trimming.
AtEmptyEndpoint ==
    /\ phase = "edges"
    /\ rel_idx \in 1..Len(all_relationships)
    /\ ~RelRaises(all_relationships[rel_idx])
    /\ EmptyEndpoint(all_relationships[rel_idx])

\* C20: the step of the edge loop at a relationship whose source or target
\* is empty after trimming issues no query, leaves relationships_created
\* and the store as they are, and moves on to the next record; so no query
\* in the history is for such a record, and the records reached after it
\* that have endpoints got their query.
C20_EmptyEndpointSkipped ==
    /\ [][AtEmptyEndpoint =>
            /\ rel_idx' = rel_idx + 1
            /\ phase' = "edges"
            /\ UNCHANGED <<queries, rels_created, nodes_created, store_nodes,
                           store_edges, all_relationships>>]_vars
    /\ [](\A k \in 1..Len(all_relationships) :
            k < rel_idx =>
                IF EmptyEndpoint(all_relationships[k])
                THEN EdgeQueries("edge", k) \cup EdgeQueries("fallback", k) = {}
                ELSE EdgeQueries("edge", k) # {})

\* The run returned: the first record, whose source is blank, got no query
\* and was not counted; the record after it was written and counted.
C20_Witness ==
    /\ phase = "returned"
    /\ Len(all_relationships) = 2
    /\ EmptyEndpoint(all_relationships[1])
    /\ Len(queries) = 1
    /\ queries[1].q = "edge" /\ queries[1].idx = 2 /\ queries[1].ok
    /\ rels_created = 1

\* The run issued queries and the store executed none of them.
StoreUnreachable ==
    /\ queries # <<>>
    /\ \A j \in 1..Len(queries) : ~queries[j].ok

\* C19: an ingestion during which every query to the store failed is
\* answered to the caller as a failure, not as a success.
C19_UnreachableStoreIsFailure ==
    (phase \in {"returned", "raised"} /\ StoreUnreachable)
        => UploadResponse.status = "error"

-----------------------------------------------------------------------------
\* Properties of the retrieval.

\* The first line of the block of a node.
HeaderOf(n) == sEntityOpen \o n.name.v \o sTypeOpen \o n.type.v \o sClose

\* The string begins with the prefix.
StartsWith(str, prefix) ==
    Len(str) >= Len(prefix) /\ SubSeq(str, 1, Len(prefix)) = prefix

\* No entity of the graph matches the query.
NothingMatches == \A n \in store_nodes : ~MatchesQuery(n, r_query)

\* C21: _retrieve_subgraph returns the sentinel exactly when the graph
\* holds no entity.  On a graph that has entities none of which matches
\* the query it returns the blocks of the sample joined by blank lines: one
\* block per sampled entity, each a different entity of the graph, as many
\* as the graph has entities up to the sample limit, with or without
\* relationship lines.
C21_SentinelOnlyForEmptyGraph ==
    rpc = "done" =>
        /\ (r_context = Sentinel) <=> (store_nodes = {})
        /\ (store_nodes # {} /\ NothingMatches) =>
              /\ Len(context_parts) = Min({SampleLimit, Cardinality(store_nodes)})
              /\ \A k \in 1..Len(context_parts) :
                    \E n \in store_nodes :
                        /\ r_results[k].entity = n.name
                        /\ StartsWith(context_parts[k], HeaderOf(n))
              /\ \A j \in 1..Len(context_parts) : \A k \in 1..Len(context_parts) :
                    r_results[j].entity = r_results[k].entity => j = k
              /\ r_context = Join(context_parts, <<"\n", "\n">>)

\* On a graph of more entities than the sample holds, most of them without
\* relationships, a query that matches nothing was answered with the
\* sample's blocks.
C21_Witness ==
    /\ rpc = "done"
    /\ r_query = <<"z", "z">>
    /\ Cardinality(store_nodes) > SampleLimit
    /\ store_edges # {}
    /\ Len(context_parts) = SampleLimit
    /\ r_context # Sentinel

-----------------------------------------------------------------------------
\* Properties of the boundary search.

\* The characters of the text at offsets s .. s + chunk_size - 1.
TextWindow(s) ==
    SubSeq(full_text, s + 1, Min({s + chunk_size, Len(full_text)}))

\* The offsets in w at which the boundary b occurs.
Occurrences(w, b) ==
    {i \in 0..(Len(w) - Len(b)) : SubSeq(w, i + 1, i + Len(b)) = b}

\* Some boundary occurs in w.
HasBoundary(w) == \E k \in 1..Len(Boundaries) : Occurrences(w, Boundaries[k]) # {}

\* The first boundary of the list that occurs in w.
FirstBoundary(w) ==
    Boundaries[CHOOSE k \in 1..Len(Boundaries) :
        /\ Occurrences(w, Boundaries[k]) # {}
        /\ \A j \in 1..(k - 1) : Occurrences(w, Boundaries[j]) = {}]

\* The offset in the text just after the last occurrence in the window at s
\* of the first boundary that occurs in it.
SnappedEnd(s) ==
    LET w == TextWindow(s)
        b == FirstBoundary(w)
    IN  s + Max(Occurrences(w, b)) + Len(b)

\* The window at s stops before the end of the text.
EndsInsideText(s) == s + chunk_size < Len(full_text)

\* The text the k-th window covers.
Covered(k) ==
    SubSeq(full_text, windows[k][1] + 1, Min({windows[k][2], Len(full_text)}))

\* C22 (as stated): every window scanned covers the text up to just after
\* the last occurrence of the first boundary of the list that occurs in it,
\* and its full chunk_size characters if none occurs.
C22_EveryWindowSnapped ==
    \A k \in 1..Len(windows) :
        LET s == windows[k][1]
        IN  Covered(k) = IF HasBoundary(TextWindow(s))
                         THEN SubSeq(full_text, s + 1, SnappedEnd(s))
                         ELSE TextWindow(s)

\* C22 (amended): a window that stops before the end of the text ends just
\* after the last occurrence of the first boundary of the list that occurs
\* in it, even when a later boundary of the list occurs further on in the
\* window; a window in which none occurs, and a window that reaches the end
\* of the text, keeps its full chunk_size length.
C22_InnerWindowSnapped ==
    \A k \in 1..Len(windows) :
        LET s == windows[k][1]
            end == windows[k][2]
        IN  end = IF EndsInsideText(s) /\ HasBoundary(TextWindow(s))
                  THEN SnappedEnd(s)
                  ELSE s + chunk_size

\* A window that stops before the end of the text was cut after its ". "
\* although a "\n" occurs after it in the window.
C22_Witness ==
    \E k \in 1..Len(windows) :
        LET s == windows[k][1]
            w == TextWindow(s)
        IN  /\ EndsInsideText(s)
            /\ Occurrences(w, <<".", " ">>) # {}
            /\ Occurrences(w, <<"\n">>) # {}
            /\ Max(Occurrences(w, <<"\n">>)) > Max(Occurrences(w, <<".", " ">>))
            /\ windows[k][2] = s + Max(Occurrences(w, <<".", " ">>)) + 2

-----------------------------------------------------------------------------
\* Properties of the admission gate.

\* The steps of the tasks: a task starts its call only by taking a free
\* permit, and the end of its call gives one back.
GateStep ==
    \A i \in Tasks :
        /\ (tpc[i] = "waiting" /\ tpc'[i] # "waiting") =>
              (tpc'[i] = "running" /\ permits > 0 /\ permits' = permits - 1)
        /\ (tpc[i] = "running" /\ tpc'[i] # "running") =>
              (tpc'[i] \in {"done", "failed"} /\ permits' = permits + 1)

\* C23: the admission gate conserves its permits.  A task takes a permit
\* before it starts its call and gives it back when the call ends, by an
\* answer that parses or not, an exception or a timeout; in every state the
\* free permits and the calls in flight add up to the limit; every waiting
\* task is eventually admitted; and all permits are free when the batch
\* returns.
C23_PermitsConserved ==
    /\ [][GateStep]_vars
    /\ [](permits + Cardinality(Outstanding) = MaxParallel)
    /\ <>(\A i \in Tasks : tpc[i] # "waiting")
    /\ [](phase = "gathered" => permits = MaxParallel)

\* More tasks than permits have all been admitted, one of them after a call
\* that timed out gave its permit back, and the gate is exhausted again;
\* calls have ended in each of the four ways.
C23_Witness ==
    /\ nchunks > MaxParallel
    /\ permits = 0
    /\ \A i \in Tasks : tpc[i] # "waiting"
    /\ \E i \in Tasks : tpc[i] = "done" /\ llm[i] = Timeout

\* The batch of more tasks than permits has returned after calls that ended
\* in each of the four ways.
C23_Returned ==
    /\ phase = "gathered"
    /\ nchunks > MaxParallel
    /\ permits = MaxParallel
    /\ \A o \in GateOutcomes : \E i \in Tasks : llm[i] = o

-----------------------------------------------------------------------------
\* Properties of the extraction client.

\* The calls of the model begun for the first n chunks.
RECURSIVE InvocationsTo(_)
InvocationsTo(n) == IF n = 0 THEN 0 ELSE InvocationsTo(n - 1) + invoked[n]

\* The call for chunk i ended without a parsed answer: by a timeout, by a
\* failure, or by an answer that does not parse.
EndedEmpty(i) ==
    \/ llm[i].kind \in {"timeout", "error"}
    \/ llm[i].kind = "text" /\ llm[i].text = <<Junk>>

\* C24: in one run of build_knowledge_graph the model is called once for
\* each chunk: never before the chunk's task is admitted, once from then
\* on, and not again after a timeout, a failure or an answer that does not
\* parse; once the batch has returned, and up to the end of the run, the
\* calls of the model are as many as the chunks.
C24_OneInvocationPerChunk ==
    /\ \A i \in Tasks :
          /\ invoked[i] = IF tpc[i] = "waiting" THEN 0 ELSE 1
          /\ EndedEmpty(i) => (invoked[i] = 1 /\ tpc[i] = "done")
    /\ phase \in {"gathered", "nodes", "edges", "fallback", "returned"} =>
          InvocationsTo(nchunks) = nchunks

\* A run of three chunks has returned: one call timed out, one failed, one
\* gave an answer that does not parse, and the model was called three times.
C24_Witness ==
    /\ phase = "returned"
    /\ nchunks = 3
    /\ \E i, j, k \in Tasks :
          /\ llm[i] = Timeout
          /\ llm[j] = CallError
          /\ llm[k] = Response(<<Junk>>)
    /\ InvocationsTo(nchunks) = 3

====
